---- MODULE Spec2Model ----
(***************************************************************************)
(* Model of src/lint-resources.js (skyux-builder-resource-linter).         *)
(*                                                                         *)
(* Strings are sequences of one-character strings.  The single quote is    *)
(* "'", the double quote "\"", the backslash "\\", the blank " " and the    *)
(* line feed "\n"; "a" and "b" stand for characters of [a-z0-9_] and "."    *)
(* for any other printable character.                                      *)
(***************************************************************************)
EXTENDS Integers, Sequences, FiniteSets, TLC

VARIABLES pc,            \* which function runs / has returned
          key,           \* sanitizeKey: the argument
          once,          \* sanitizeKey(key)
          twice,         \* sanitizeKey(sanitizeKey(key))
          disk,          \* the file system: path -> outcome of readFileSync
          filePaths,     \* getFiles: the argument
          files,         \* list of {fileName, fileContents}
          resourceFiles, \* list of {resourceFileName, keys}
          references,    \* list of {fileName, resources}
          pos,           \* findMissingKeysInResourceFiles: the (dictionary, file, key) still to visit
          missing,       \* missingKeys.missing
          nonStandard,   \* missingKeys.nonStandard
          unusedKeys,    \* result of findUnusedKeysInResourceFiles
          tsRefs         \* result of getTSReferences

vars == <<pc, key, once, twice, disk, filePaths, files, resourceFiles,
          references, pos, missing, nonStandard, unusedKeys, tsRefs>>

(***************************************************************************)
(* Bounds                                                                  *)
(***************************************************************************)
MaxKeyLen == 4
MaxTokenLen == 7
MaxRes == 2
MaxPaths == 2
MaxKeys == 2
MaxTextLen == 2
MaxContentLen == 6

(***************************************************************************)
(* Characters and strings                                                  *)
(***************************************************************************)
SQ == "'"
DQ == "\""
BS == "\\"
SP == " "
NL == "\n"

\* \s of the regular expressions
WhiteSpace == {SP, NL}
\* line terminators, which "." does not match without the s flag
LineTerminator == {NL}
\* [a-z0-9_]
KeyChars == {"a", "b"}

\* all strings over alphabet A of length at most n
Strs(A, n) == UNION {[1..k -> A] : k \in 0..n}

\* Array.prototype.includes
Includes(list, x) == \E i \in 1..Len(list) : list[i] = x

\* the string holds a character of the class
HasChar(s, class) == \E i \in 1..Len(s) : s[i] \in class

(***************************************************************************)
(* sanitizeKey                                                             *)
(***************************************************************************)
\* characters matched by /'|\s|\\/
StripChars == {SQ, BS} \cup WhiteSpace

IsKept(c) == c \notin StripChars

\* a replace without the g flag: only the first match is removed
sanitizeKeyFirstOnly(k) ==
    IF \E i \in 1..Len(k) : k[i] \in StripChars
    THEN LET i == CHOOSE j \in 1..Len(k) :
                    /\ k[j] \in StripChars
                    /\ \A h \in 1..(j - 1) : k[h] \notin StripChars
         IN SubSeq(k, 1, i - 1) \o SubSeq(k, i + 1, Len(k))
    ELSE k

\* key.replace(/'|\s|\\/gi, '')
sanitizeKey(k) == SelectSeq(k, IsKept)

(***************************************************************************)
(* findMissingKeysInResourceFiles                                          *)
(***************************************************************************)
\* lodash.isempty on an array
isEmpty(list) == Len(list) = 0

\* !resourceFile.keys.includes(sanitizedKey)
IsMissing(keys, sanitizedKey) == ~Includes(keys, sanitizedKey)

\* only the character test on the sanitized key, the quoting test dropped
IsNonStandardKeyCharsOnly(rawKey, sanitizedKey) ==
    \E i \in 1..Len(sanitizedKey) : sanitizedKey[i] \notin KeyChars

\* !(!!key.match(/'|\s|\\/gi)) || !!sanitizedKey.match(/[^a-z0-9_]/g)
IsNonStandardKey(rawKey, sanitizedKey) ==
    \/ ~HasChar(rawKey, StripChars)
    \/ \E i \in 1..Len(sanitizedKey) : sanitizedKey[i] \notin KeyChars

\* positions where /\'(.*?)\'/ matches: a quote followed, before any line
\* terminator ("." does not match one), by another quote
ParamMatchStarts(rawKey) ==
    {i \in 1..Len(rawKey) :
        /\ rawKey[i] = SQ
        /\ \E j \in (i + 1)..Len(rawKey) :
              /\ rawKey[j] = SQ
              /\ \A h \in (i + 1)..(j - 1) : rawKey[h] \notin LineTerminator}

\* key.match(/\'(.*?)\'/g): the list of matches is not empty
HasParamKey(rawKey) == ParamMatchStarts(rawKey) # {}

\* paramKey[0]: the leftmost match, lazily ended at the next quote
ParamKey0(rawKey) ==
    LET i == CHOOSE m \in ParamMatchStarts(rawKey) :
                 \A n \in ParamMatchStarts(rawKey) : m <= n
        j == CHOOSE q \in (i + 1)..Len(rawKey) :
                 /\ rawKey[q] = SQ
                 /\ \A h \in (i + 1)..(q - 1) : rawKey[h] # SQ
    IN SubSeq(rawKey, i, j)

\* the fallback that keeps the first isMissing instead of computing it again
CheckKeyStale(keys, rawKey) ==
    LET sanitized0 == sanitizeKey(rawKey)
        isMissing0 == IsMissing(keys, sanitized0)
        isNonStd0 == IsNonStandardKey(rawKey, sanitized0)
        fallback == isMissing0 /\ isNonStd0 /\ HasParamKey(rawKey)
    IN IF fallback
       THEN [isMissing |-> isMissing0,
             isNonStandardKey |-> FALSE,
             sanitizedKey |-> sanitizeKey(ParamKey0(rawKey))]
       ELSE [isMissing |-> isMissing0,
             isNonStandardKey |-> isNonStd0,
             sanitizedKey |-> sanitized0]

\* lines 177-189: sanitizedKey, isMissing and isNonStandardKey of one key
CheckKey(keys, rawKey) ==
    LET sanitized0 == sanitizeKey(rawKey)
        isMissing0 == IsMissing(keys, sanitized0)
        isNonStd0 == IsNonStandardKey(rawKey, sanitized0)
        fallback == isMissing0 /\ isNonStd0 /\ HasParamKey(rawKey)
        sanitized1 == sanitizeKey(ParamKey0(rawKey))
    IN IF fallback
       THEN [isMissing |-> IsMissing(keys, sanitized1),
             isNonStandardKey |-> FALSE,
             sanitizedKey |-> sanitized1]
       ELSE [isMissing |-> isMissing0,
             isNonStandardKey |-> isNonStd0,
             sanitizedKey |-> sanitized0]

\* a push without the find
PushAlways(list, result) == Append(list, result)

\* if (!list.find(r => r.key === result.key)) { list.push(result); }
PushIfNew(list, result) ==
    IF \E i \in 1..Len(list) : list[i].key = result.key
    THEN list
    ELSE Append(list, result)

RECURSIVE Flatten(_)
Flatten(ss) == IF Len(ss) = 0 THEN <<>> ELSE Head(ss) \o Flatten(Tail(ss))

\* the order in which reduce / map / map visit (dictionary, file, key)
Iterations(rfs, refs) ==
    Flatten([d \in 1..Len(rfs) |->
        Flatten([f \in 1..Len(refs) |->
            [i \in 1..Len(refs[f].resources) |-> <<d, f, i>>]])])

\* lines 167-172 and the seed of reduce
findMissingEntry ==
    /\ pc = "findMissing"
    /\ missing' = <<>>
    /\ nonStandard' = <<>>
    /\ IF isEmpty(resourceFiles) \/ isEmpty(references)
       THEN pc' = "returned" /\ pos' = <<>>
       ELSE pc' = "reduce" /\ pos' = Iterations(resourceFiles, references)
    /\ UNCHANGED <<key, once, twice, disk, filePaths, files, resourceFiles,
                   references, unusedKeys, tsRefs>>

\* the entries a key adds to both lists when it is reported in both
AddResultBoth(out, isNonStandardKey, result) ==
    [missing |-> PushIfNew(out.missing, result),
     nonStandard |-> PushIfNew(out.nonStandard, result)]

\* lines 197-206
AddResult(out, isNonStandardKey, result) ==
    IF isNonStandardKey
    THEN [missing |-> out.missing,
          nonStandard |-> PushIfNew(out.nonStandard, result)]
    ELSE [missing |-> PushIfNew(out.missing, result),
          nonStandard |-> out.nonStandard]

\* the callback of referenceFile.resources.map, lines 176-208
checkReference ==
    /\ pc = "reduce"
    /\ pos # <<>>
    /\ LET resourceFile == resourceFiles[Head(pos)[1]]
           referenceFile == references[Head(pos)[2]]
           c == CheckKey(resourceFile.keys, referenceFile.resources[Head(pos)[3]])
           result == [resourceFileName |-> resourceFile.resourceFileName,
                      fileName |-> referenceFile.fileName,
                      key |-> c.sanitizedKey]
           out == AddResult([missing |-> missing, nonStandard |-> nonStandard],
                            c.isNonStandardKey, result)
       IN /\ missing' = IF c.isMissing THEN out.missing ELSE missing
          /\ nonStandard' = IF c.isMissing THEN out.nonStandard ELSE nonStandard
    /\ pos' = Tail(pos)
    /\ UNCHANGED <<pc, key, once, twice, disk, filePaths, files, resourceFiles,
                   references, unusedKeys, tsRefs>>

\* return results
findMissingReturn ==
    /\ pc = "reduce"
    /\ pos = <<>>
    /\ pc' = "returned"
    /\ UNCHANGED <<key, once, twice, disk, filePaths, files, resourceFiles,
                   references, pos, missing, nonStandard, unusedKeys, tsRefs>>

NextMissing == findMissingEntry \/ checkReference \/ findMissingReturn

(***************************************************************************)
(* Inputs of findMissingKeysInResourceFiles                                *)
(***************************************************************************)
DictNames == <<"en.json", "fr.json">>
RefFileNames == <<"a.html", "b.ts">>

\* Object.keys of a resource file
KeyLists == {<<>>, << <<"a">> >>}

\* reference tokens: an identifier, a quoted key, an expression, a quoted
\* key followed by an operator
Tokens == { <<"a">>, <<SQ, "a", SQ>>, <<".">>, <<SQ, "a", SQ, ".">> }

\* the resource files: a prefix of the locales, each with its keys
DictLists ==
    UNION {{rfs \in [1..n -> [resourceFileName : {DictNames[i] : i \in 1..Len(DictNames)},
                              keys : KeyLists]] :
               \A i \in 1..n : rfs[i].resourceFileName = DictNames[i]}
           : n \in 0..Len(DictNames)}

\* the reference records: a prefix of the files, each with at most MaxRes tokens
RefLists ==
    UNION {{refs \in [1..n -> [fileName : {RefFileNames[i] : i \in 1..Len(RefFileNames)},
                               resources : Strs(Tokens, MaxRes)]] :
               \A i \in 1..n : refs[i].fileName = RefFileNames[i]}
           : n \in 0..Len(RefFileNames)}

Idle ==
    /\ key = <<>> /\ once = <<>> /\ twice = <<>>
    /\ disk = <<>> /\ filePaths = <<>> /\ files = <<>>
    /\ unusedKeys = <<>> /\ tsRefs = <<>>

InitMissing ==
    /\ Idle
    /\ pc = "findMissing"
    /\ resourceFiles \in DictLists
    /\ references \in RefLists
    /\ pos = <<>> /\ missing = <<>> /\ nonStandard = <<>>

SpecMissing == InitMissing /\ [][NextMissing]_vars

\* one resource file and one reference, the token being any string
TokenAlphabet == {SQ, SP, NL, "a", "."}

InitToken ==
    /\ Idle
    /\ pc = "findMissing"
    /\ \E keys \in KeyLists :
          resourceFiles = << [resourceFileName |-> DictNames[1], keys |-> keys] >>
    /\ \E token \in Strs(TokenAlphabet, MaxTokenLen) :
          references = << [fileName |-> RefFileNames[1], resources |-> <<token>>] >>
    /\ pos = <<>> /\ missing = <<>> /\ nonStandard = <<>>

SpecToken == InitToken /\ [][NextMissing]_vars

(***************************************************************************)
(* Properties of findMissingKeysInResourceFiles                            *)
(***************************************************************************)
\* the key the next checkReference step looks at, and its dictionary and file
CurDict == resourceFiles[Head(pos)[1]]
CurFile == references[Head(pos)[2]]
CurToken == CurFile.resources[Head(pos)[3]]
AtReference == pc = "reduce" /\ pos # <<>>

NoDupKeys(list) ==
    \A i, j \in 1..Len(list) : list[i].key = list[j].key => i = j

\* what iteration it = <<d, f, i>> reports, from the inputs alone
Outcome(it) ==
    CheckKey(resourceFiles[it[1]].keys, references[it[2]].resources[it[3]])

Reports(it, nonStd, k) ==
    /\ Outcome(it).isMissing
    /\ Outcome(it).isNonStandardKey = nonStd
    /\ Outcome(it).sanitizedKey = k

\* the list holds, for each key reported in its category, exactly the entry of
\* the first iteration that reports it
FirstWins(list, nonStd) ==
    LET its == Iterations(resourceFiles, references)
    IN /\ \A n \in 1..Len(its) :
             Outcome(its[n]).isMissing /\ Outcome(its[n]).isNonStandardKey = nonStd
                => \E e \in 1..Len(list) : list[e].key = Outcome(its[n]).sanitizedKey
       /\ \A e \in 1..Len(list) :
             \E n \in 1..Len(its) :
                /\ Reports(its[n], nonStd, list[e].key)
                /\ \A m \in 1..(n - 1) : ~Reports(its[m], nonStd, list[e].key)
                /\ list[e].resourceFileName = resourceFiles[its[n][1]].resourceFileName
                /\ list[e].fileName = references[its[n][2]].fileName

\* C1: missing and nonStandard never hold two entries with the same key, and
\* when the function returns each key's entry is the one of the first
\* (dictionary, file) pair, dictionaries outer and files inner, that reported it
C1_DedupFirstWins ==
    /\ NoDupKeys(missing)
    /\ NoDupKeys(nonStandard)
    /\ pc = "returned" =>
          /\ FirstWins(missing, FALSE)
          /\ FirstWins(nonStandard, TRUE)

\* a key was reported missing from two different files and one entry, naming
\* the first file, was kept
C1_Witness ==
    /\ pc = "returned"
    /\ Len(resourceFiles) >= 1
    /\ Len(references) = 2
    /\ \E i \in 1..Len(references[1].resources),
          j \in 1..Len(references[2].resources) :
          /\ Reports(<<1, 1, i>>, FALSE, <<"a">>)
          /\ Reports(<<1, 2, j>>, FALSE, <<"a">>)
    /\ \E e \in 1..Len(missing) :
          missing[e].key = <<"a">> /\ missing[e].fileName = RefFileNames[1]

\* C3: every entry of missing has a key made only of [a-z0-9_]
C3_MissingKeysAreStandard ==
    \A e \in 1..Len(missing) :
        \A i \in 1..Len(missing[e].key) : missing[e].key[i] \in KeyChars

\* C5: a token without quote, whitespace or backslash whose sanitized form is
\* absent from the dictionary leaves missing alone and is in nonStandard
\* afterwards under its raw text, appended unless that key was already there
C5_UnquotedIsNonStandard ==
    [][(/\ AtReference
        /\ ~HasChar(CurToken, StripChars)
        /\ ~Includes(CurDict.keys, sanitizeKey(CurToken)))
       => /\ missing' = missing
          /\ IF \E e \in 1..Len(nonStandard) : nonStandard[e].key = CurToken
             THEN nonStandard' = nonStandard
             ELSE nonStandard' =
                    Append(nonStandard,
                           [resourceFileName |-> CurDict.resourceFileName,
                            fileName |-> CurFile.fileName,
                            key |-> CurToken])]_vars

\* the unquoted token "." was reported against a dictionary
C5_Witness ==
    /\ pc = "returned"
    /\ \E f \in 1..Len(references) : Includes(references[f].resources, <<".">>)
    /\ \E e \in 1..Len(nonStandard) : nonStandard[e].key = <<".">>
    /\ \A e \in 1..Len(missing) : missing[e].key # <<".">>

\* the dictionary an entry names
DictNamed(name) ==
    CHOOSE d \in 1..Len(resourceFiles) : resourceFiles[d].resourceFileName = name

\* C6: the key of every entry of missing and nonStandard is absent from the
\* key set of the dictionary the entry names, and a reference whose sanitized
\* token is a declared key of the dictionary adds no entry
C6_ReportedKeysAreAbsent ==
    /\ [](\A e \in 1..Len(missing) :
            ~Includes(resourceFiles[DictNamed(missing[e].resourceFileName)].keys,
                      missing[e].key))
    /\ [](\A e \in 1..Len(nonStandard) :
            ~Includes(resourceFiles[DictNamed(nonStandard[e].resourceFileName)].keys,
                      nonStandard[e].key))
    /\ [][(AtReference /\ Includes(CurDict.keys, sanitizeKey(CurToken)))
            => (missing' = missing /\ nonStandard' = nonStandard)]_vars

\* the second dictionary declares "a", the first does not; quoted and unquoted
\* references to "a" were reported against the first only
C6_Witness ==
    /\ pc = "returned"
    /\ Len(resourceFiles) = 2
    /\ ~Includes(resourceFiles[1].keys, <<"a">>)
    /\ Includes(resourceFiles[2].keys, <<"a">>)
    /\ \E f \in 1..Len(references) : Includes(references[f].resources, <<"a">>)
    /\ \E f \in 1..Len(references) : Includes(references[f].resources, <<SQ, "a", SQ>>)
    /\ \E e \in 1..Len(missing) : missing[e].key = <<"a">>
    /\ \E e \in 1..Len(nonStandard) : nonStandard[e].key = <<"a">>

\* C10: no key is in an entry of missing and in an entry of nonStandard
C10_DisjointByKey ==
    \A i \in 1..Len(missing), j \in 1..Len(nonStandard) :
        missing[i].key # nonStandard[j].key

\* the tokens of all reference records
AllTokens ==
    UNION {{references[f].resources[i] : i \in 1..Len(references[f].resources)}
           : f \in 1..Len(references)}

\* the tokens reported, when missing, in nonStandard: non-standard and
\* without a single-quoted literal
GoesNonStandard(t) == IsNonStandardKey(t, sanitizeKey(t)) /\ ~HasParamKey(t)

\* the keys a token is reported under
TokenKeys(t) ==
    {sanitizeKey(t)} \cup
       (IF HasParamKey(t) THEN {sanitizeKey(ParamKey0(t))} ELSE {})

\* C10 as amended: a key is in both sets only on account of two different raw
\* tokens, one reported in nonStandard under its sanitized text, the other
\* standard or holding a single-quoted literal
C10_SharedKeyFromTwoTokens ==
    \A i \in 1..Len(missing), j \in 1..Len(nonStandard) :
        missing[i].key = nonStandard[j].key =>
            /\ \E t \in AllTokens :
                  GoesNonStandard(t) /\ sanitizeKey(t) = missing[i].key
            /\ \E t \in AllTokens :
                  ~GoesNonStandard(t) /\ missing[i].key \in TokenKeys(t)

\* "a" is in both sets
C10_Witness ==
    /\ pc = "returned"
    /\ \E i \in 1..Len(missing) : missing[i].key = <<"a">>
    /\ \E j \in 1..Len(nonStandard) : nonStandard[j].key = <<"a">>

\* positions of the single quotes of a token, in order
RECURSIVE QuotePositions(_, _)
QuotePositions(t, from) ==
    IF from > Len(t) THEN <<>>
    ELSE IF t[from] = SQ THEN <<from>> \o QuotePositions(t, from + 1)
    ELSE QuotePositions(t, from + 1)

\* the text of the n-th single-quote-delimited literal of a token
Literal(t, n) ==
    LET q == QuotePositions(t, 1)
    IN SubSeq(t, q[2 * n - 1] + 1, q[2 * n] - 1)

NumLiterals(t) == Len(QuotePositions(t, 1)) \div 2

\* the entries a step added
Added(before, after) ==
    {after[e] : e \in (Len(before) + 1)..Len(after)}

\* C9: for a missing, non-standard token with several single-quoted literals
\* only the first literal is the derived key: no entry is added when the first
\* literal is a declared key, and an entry that is added is keyed by the first
\* literal, never by a later one
C9_OnlyFirstLiteral ==
    [][(/\ AtReference
        /\ NumLiterals(CurToken) >= 2
        /\ ~Includes(CurDict.keys, sanitizeKey(CurToken))
        /\ IsNonStandardKey(CurToken, sanitizeKey(CurToken)))
       => /\ Includes(CurDict.keys, sanitizeKey(Literal(CurToken, 1)))
               => (missing' = missing /\ nonStandard' = nonStandard)
          /\ \A e \in Added(missing, missing') \cup Added(nonStandard, nonStandard') :
               e.key = sanitizeKey(Literal(CurToken, 1))]_vars

(***************************************************************************)
(* sanitizeKey applied once and twice                                      *)
(***************************************************************************)
KeyAlphabet == {SQ, DQ, SP, NL, BS, "a"}

sanitizeOnce ==
    /\ pc = "sanitize"
    /\ once' = sanitizeKey(key)
    /\ pc' = "sanitized"
    /\ UNCHANGED <<key, twice, disk, filePaths, files, resourceFiles,
                   references, pos, missing, nonStandard, unusedKeys, tsRefs>>

sanitizeAgain ==
    /\ pc = "sanitized"
    /\ twice' = sanitizeKey(once)
    /\ pc' = "resanitized"
    /\ UNCHANGED <<key, once, disk, filePaths, files, resourceFiles,
                   references, pos, missing, nonStandard, unusedKeys, tsRefs>>

NextSanitize == sanitizeOnce \/ sanitizeAgain

InitSanitize ==
    /\ pc = "sanitize"
    /\ key \in Strs(KeyAlphabet, MaxKeyLen)
    /\ once = <<>> /\ twice = <<>>
    /\ disk = <<>> /\ filePaths = <<>> /\ files = <<>>
    /\ resourceFiles = <<>> /\ references = <<>>
    /\ pos = <<>> /\ missing = <<>> /\ nonStandard = <<>>
    /\ unusedKeys = <<>> /\ tsRefs = <<>>

SpecSanitize == InitSanitize /\ [][NextSanitize]_vars

\* C7: sanitizeKey(sanitizeKey(x)) = sanitizeKey(x)
C7_SanitizeIdempotent == pc = "resanitized" => twice = once

\* a key with two characters to strip and a double quote, sanitized twice
C7_Witness ==
    /\ pc = "resanitized"
    /\ Len(key) - Len(once) >= 2
    /\ HasChar(key, {DQ})
    /\ HasChar(once, {DQ})

(***************************************************************************)
(* getFiles                                                                *)
(***************************************************************************)
\* filePath.split('/').pop(): the text after the last "/"
RECURSIVE LastSegment(_)
LastSegment(path) ==
    IF Len(path) = 0 THEN <<>>
    ELSE IF path[Len(path)] = "/" THEN <<>>
    ELSE LastSegment(SubSeq(path, 1, Len(path) - 1)) \o <<path[Len(path)]>>

\* the reduce with files.push(file) inside the try block
RECURSIVE getFilesInTry(_, _)
getFilesInTry(paths, fs) ==
    IF isEmpty(paths) THEN <<>>
    ELSE LET filePath == paths[Len(paths)]
             file == [fileName |-> LastSegment(filePath),
                      fileContents |-> fs[filePath].data]
         IN getFilesInTry(SubSeq(paths, 1, Len(paths) - 1), fs)
               \o (IF fs[filePath].ok THEN <<file>> ELSE <<>>)

\* lines 57-76; fs[filePath].ok tells whether readFileSync returns or throws
RECURSIVE getFiles(_, _)
getFiles(paths, fs) ==
    IF isEmpty(paths) THEN <<>>
    ELSE LET filePath == paths[Len(paths)]
             file == [fileName |-> LastSegment(filePath),
                      fileContents |-> IF fs[filePath].ok
                                       THEN fs[filePath].data
                                       ELSE <<>>]
         IN Append(getFiles(SubSeq(paths, 1, Len(paths) - 1), fs), file)

getFilesCall ==
    /\ pc = "getFiles"
    /\ files' = getFiles(filePaths, disk)
    /\ pc' = "returned"
    /\ UNCHANGED <<key, once, twice, disk, filePaths, resourceFiles,
                   references, pos, missing, nonStandard, unusedKeys, tsRefs>>

NextFiles == getFilesCall

Paths == { <<"x">>, <<".", "/", "app", "/", "x">>, <<".", "/", "app", "/", "y">> }

\* what a file holds, when it can be read
Texts == Strs({"a", "b"}, MaxTextLen)

\* a read throws (what data holds then is never looked at) or returns a text
ReadOutcomes ==
    {[ok |-> FALSE, data |-> <<"?">>]} \cup {[ok |-> TRUE, data |-> t] : t \in Texts}

InitFiles ==
    /\ pc = "getFiles"
    /\ disk \in [Paths -> ReadOutcomes]
    /\ filePaths \in Strs(Paths, MaxPaths)
    /\ key = <<>> /\ once = <<>> /\ twice = <<>>
    /\ files = <<>> /\ resourceFiles = <<>> /\ references = <<>>
    /\ pos = <<>> /\ missing = <<>> /\ nonStandard = <<>>
    /\ unusedKeys = <<>> /\ tsRefs = <<>>

SpecFiles == InitFiles /\ [][NextFiles]_vars

\* name is what follows the last "/" of path
IsFileNameOf(name, path) ==
    /\ ~HasChar(name, {"/"})
    /\ Len(name) <= Len(path)
    /\ SubSeq(path, Len(path) - Len(name) + 1, Len(path)) = name
    /\ Len(name) < Len(path) => path[Len(path) - Len(name)] = "/"

\* C8: getFiles returns one record per path, in the order of the paths, each
\* with the file name of its path; the contents are what was read, and are
\* empty exactly when the read failed or the file is empty
C8_OneRecordPerPath ==
    pc = "returned" =>
        /\ Len(files) = Len(filePaths)
        /\ \A i \in 1..Len(filePaths) :
              /\ IsFileNameOf(files[i].fileName, filePaths[i])
              /\ disk[filePaths[i]].ok => files[i].fileContents = disk[filePaths[i]].data
              /\ files[i].fileContents = <<>>
                    <=> (~disk[filePaths[i]].ok \/ disk[filePaths[i]].data = <<>>)

\* the first of two reads failed and the second returned a text
C8_Witness ==
    /\ pc = "returned"
    /\ Len(filePaths) = 2
    /\ ~disk[filePaths[1]].ok
    /\ disk[filePaths[2]].ok
    /\ Len(files) = 2
    /\ files[1].fileContents = <<>>
    /\ files[2].fileContents # <<>>

(***************************************************************************)
(* findUnusedKeysInResourceFiles                                           *)
(***************************************************************************)
\* String.prototype.includes
IsSubstring(s, t) ==
    \E i \in 0..(Len(t) - Len(s)) : SubSeq(t, i + 1, i + Len(s)) = s

\* the key is looked for in every file instead of in some file
KeyFoundInEvery(sanitizedKey, fls) ==
    \A f \in 1..Len(fls) : IsSubstring(sanitizedKey, fls[f].fileContents)

\* files.some(f => f.fileContents.includes(sanitizedKey))
KeyFound(sanitizedKey, fls) ==
    \E f \in 1..Len(fls) : IsSubstring(sanitizedKey, fls[f].fileContents)

\* file.keys.map(...), lines 151-160: the entries one resource file adds
RECURSIVE UnusedOf(_, _, _)
UnusedOf(name, keys, fls) ==
    IF isEmpty(keys) THEN <<>>
    ELSE LET sanitizedKey == sanitizeKey(Head(keys))
         IN (IF ~KeyFound(sanitizedKey, fls)
             THEN << [resourceFileName |-> name, key |-> sanitizedKey] >>
             ELSE <<>>) \o UnusedOf(name, Tail(keys), fls)

\* lines 146-164
findUnusedKeysInResourceFiles(rfs, fls) ==
    IF isEmpty(rfs) \/ isEmpty(fls) THEN <<>>
    ELSE Flatten([d \in 1..Len(rfs) |->
                     UnusedOf(rfs[d].resourceFileName, rfs[d].keys, fls)])

findUnusedCall ==
    /\ pc = "findUnused"
    /\ unusedKeys' = findUnusedKeysInResourceFiles(resourceFiles, files)
    /\ pc' = "returned"
    /\ UNCHANGED <<key, once, twice, disk, filePaths, files, resourceFiles,
                   references, pos, missing, nonStandard, tsRefs>>

NextUnused == findUnusedCall

\* declared keys; "a" and "a " are distinct keys with one sanitized form
DeclaredKeys == { <<"a">>, <<"a", SP>>, <<"b">> }

\* Object.keys of a resource file: distinct keys, in the order of the file
DeclaredKeyLists ==
    {ks \in Strs(DeclaredKeys, MaxKeys) :
        \A i, j \in 1..Len(ks) : ks[i] = ks[j] => i = j}

UnusedDictLists ==
    UNION {{rfs \in [1..n -> [resourceFileName : {DictNames[i] : i \in 1..Len(DictNames)},
                              keys : DeclaredKeyLists]] :
               \A i \in 1..n : rfs[i].resourceFileName = DictNames[i]}
           : n \in 0..Len(DictNames)}

ScannedFileLists ==
    UNION {{fls \in [1..n -> [fileName : {RefFileNames[i] : i \in 1..Len(RefFileNames)},
                              fileContents : Texts]] :
               \A i \in 1..n : fls[i].fileName = RefFileNames[i]}
           : n \in 0..Len(RefFileNames)}

\* the reference lists of the run, which findUnusedKeysInResourceFiles is not given
SomeReferences ==
    { <<>>, << [fileName |-> RefFileNames[1], resources |-> << <<"a">> >>] >> }

InitUnused ==
    /\ pc = "findUnused"
    /\ resourceFiles \in UnusedDictLists
    /\ files \in ScannedFileLists
    /\ references \in SomeReferences
    /\ key = <<>> /\ once = <<>> /\ twice = <<>>
    /\ disk = <<>> /\ filePaths = <<>>
    /\ pos = <<>> /\ missing = <<>> /\ nonStandard = <<>>
    /\ unusedKeys = <<>> /\ tsRefs = <<>>

SpecUnused == InitUnused /\ [][NextUnused]_vars

\* how many entries {name, k} the result holds
EntryCount(name, k) ==
    Cardinality({e \in 1..Len(unusedKeys) :
                    unusedKeys[e] = [resourceFileName |-> name, key |-> k]})

InSomeFile(k) == \E f \in 1..Len(files) : IsSubstring(k, files[f].fileContents)

\* C4: for every dictionary D and key k of D the result holds exactly one
\* entry {D, sanitize(k)} when sanitize(k) is in no scanned file's contents,
\* and none otherwise
C4_OneEntryPerUnusedKey ==
    pc = "returned" =>
        \A d \in 1..Len(resourceFiles) :
            \A i \in 1..Len(resourceFiles[d].keys) :
                LET k == sanitizeKey(resourceFiles[d].keys[i])
                IN EntryCount(resourceFiles[d].resourceFileName, k)
                      = IF InSomeFile(k) THEN 0 ELSE 1

\* C4 as amended: with no resource file or no scanned file the result is
\* empty; otherwise, for every dictionary D and key k of D, the result holds
\* no entry {D, sanitize(k)} when sanitize(k) is in some scanned file's
\* contents and else one entry per key of D with that sanitized form; and it
\* holds nothing else
C4_EntriesOfUnusedKeys ==
    pc = "returned" =>
        IF Len(resourceFiles) = 0 \/ Len(files) = 0
        THEN unusedKeys = <<>>
        ELSE /\ \A d \in 1..Len(resourceFiles) :
                  \A i \in 1..Len(resourceFiles[d].keys) :
                     LET k == sanitizeKey(resourceFiles[d].keys[i])
                     IN EntryCount(resourceFiles[d].resourceFileName, k)
                          = IF InSomeFile(k) THEN 0
                            ELSE Cardinality(
                                   {j \in 1..Len(resourceFiles[d].keys) :
                                       sanitizeKey(resourceFiles[d].keys[j]) = k})
             /\ \A e \in 1..Len(unusedKeys) :
                  \E d \in 1..Len(resourceFiles) :
                     /\ resourceFiles[d].resourceFileName = unusedKeys[e].resourceFileName
                     /\ \E i \in 1..Len(resourceFiles[d].keys) :
                           sanitizeKey(resourceFiles[d].keys[i]) = unusedKeys[e].key

\* "b" is declared in both dictionaries, in one scanned file and not in the
\* other; "a" is declared in the first only and in no file
C4_Witness ==
    /\ pc = "returned"
    /\ Len(resourceFiles) = 2 /\ Len(files) = 2
    /\ Includes(resourceFiles[1].keys, <<"b">>)
    /\ Includes(resourceFiles[2].keys, <<"b">>)
    /\ Includes(resourceFiles[1].keys, <<"a">>)
    /\ ~InSomeFile(<<"a">>)
    /\ IsSubstring(<<"b">>, files[2].fileContents)
    /\ ~IsSubstring(<<"b">>, files[1].fileContents)
    /\ unusedKeys = << [resourceFileName |-> DictNames[1], key |-> <<"a">>] >>

(***************************************************************************)
(* getTSReferences                                                         *)
(*                                                                         *)
(* The contents of a logic file are a sequence of characters and of two    *)
(* lexemes taken whole: TYPE, the annotation ": SkyAppResourcesService"    *)
(* that tsResourcesServiceLookupRegex looks ahead for, and CALL, the text  *)
(* ".getString(" of a lookup.  TAIL is the part of TYPE after its blank,   *)
(* which \S* matches when a name follows an annotation directly.           *)
(***************************************************************************)
TYPE == ": SkyAppResourcesService"
TAIL == "SkyAppResourcesService"
CALL == ".getString("

\* the text before position p that \S* matches: back to the last whitespace,
\* or to the blank inside the last annotation
NameBefore(contents, p) ==
    LET stops == {r \in 1..(p - 1) : contents[r] \in WhiteSpace \cup {TYPE}}
        r == IF stops = {} THEN 0
             ELSE CHOOSE m \in stops : \A n \in stops : n <= m
    IN (IF r > 0 /\ contents[r] = TYPE THEN <<TAIL>> ELSE <<>>)
          \o SubSeq(contents, r + 1, p - 1)

\* file.fileContents.match(tsResourcesServiceLookupRegex): at each annotation
\* the name before it, when there is one, and then the empty match at the
\* annotation itself; <<>> stands for null as well, both add nothing
RECURSIVE ServiceNames(_, _)
ServiceNames(contents, p) ==
    IF p > Len(contents) THEN <<>>
    ELSE IF contents[p] = TYPE
         THEN (IF NameBefore(contents, p) # <<>>
               THEN <<NameBefore(contents, p)>> ELSE <<>>)
                  \o << <<>> >> \o ServiceNames(contents, p + 1)
         ELSE ServiceNames(contents, p + 1)

\* the nesting depth of the groups after the text of a service name has been
\* read as a pattern inside (?<= ; -1 when a ")" closes nothing
RECURSIVE PatternDepth(_, _, _)
PatternDepth(sn, i, depth) ==
    IF i > Len(sn) THEN depth
    ELSE IF sn[i] = CALL THEN PatternDepth(sn, i + 1, depth + 1)
    ELSE IF sn[i] = ")" THEN (IF depth = 0 THEN -1
                              ELSE PatternDepth(sn, i + 1, depth - 1))
    ELSE PatternDepth(sn, i + 1, depth)

\* new RegExp(...) throws a SyntaxError: the ")" that the template puts after
\* \.getString\( must close the last open group
RegExpThrows(sn) == PatternDepth(sn, 1, 1) # 1

\* the name holds no "(" or ")": the pattern matches the name's own text
IsLiteralName(sn) == \A i \in 1..Len(sn) : sn[i] \notin {CALL, ")"}

\* the lookbehind (?<=name\.getString\() holds at position p
IsLookupStart(contents, sn, p) ==
    /\ p - 2 - Len(sn) >= 0
    /\ p - 1 <= Len(contents)
    /\ contents[p - 1] = CALL
    /\ \A k \in 1..Len(sn) :
          LET c == contents[p - 2 - Len(sn) + k]
          IN c = sn[k] \/ (sn[k] = TAIL /\ c = TYPE)

\* contents.match(getTSResourcesStringLookupRegex(sn)), from position `from`:
\* at each lookup start the text up to the next ")"; the scan goes on there
RECURSIVE LookupMatches(_, _, _)
LookupMatches(contents, sn, from) ==
    LET starts == {p \in from..(Len(contents) + 1) : IsLookupStart(contents, sn, p)}
    IN IF starts = {} THEN <<>>
       ELSE LET p == CHOOSE m \in starts : \A n \in starts : m <= n
                closes == {q \in p..Len(contents) : contents[q] = ")"}
            IN IF closes = {} THEN <<>>
               ELSE LET q == CHOOSE m \in closes : \A n \in closes : m <= n
                    IN <<SubSeq(contents, p, q - 1)>>
                          \o LookupMatches(contents, sn, q + 1)

\* lines 142-144 and 117: the matches of the lookup of a service name; a name
\* holding a "(" gives a pattern that no text of these lexemes matches
getTSResourcesStringLookup(contents, sn) ==
    IF IsLiteralName(sn) THEN LookupMatches(contents, sn, 1) ELSE <<>>

\* r.split(',').shift()
RECURSIVE FirstCommaSegment(_)
FirstCommaSegment(r) ==
    IF Len(r) = 0 \/ Head(r) = "," THEN <<>>
    ELSE <<Head(r)>> \o FirstCommaSegment(Tail(r))

\* serviceNames.forEach, lines 114-129.  acc.resources is
\* tsFileReferences.resources, acc.pushes the number of times the record was
\* pushed on refs, acc.thrown whether the try block was left by an exception.
\* The result of resources.map (line 119) is dropped: what is pushed is
\* resources itself.
RECURSIVE ForEachServiceName(_, _, _)
ForEachServiceName(contents, names, acc) ==
    IF isEmpty(names) THEN acc
    ELSE LET sn == Head(names)
             resources == getTSResourcesStringLookup(contents, sn)
         IN IF sn = <<>>
            THEN ForEachServiceName(contents, Tail(names), acc)
            ELSE IF RegExpThrows(sn)
            THEN [acc EXCEPT !.thrown = TRUE]
            ELSE IF resources = <<>>
            THEN ForEachServiceName(contents, Tail(names), acc)
            ELSE ForEachServiceName(contents, Tail(names),
                    [acc EXCEPT !.resources = acc.resources \o resources,
                                !.pushes = acc.pushes + 1])

\* the callback of files.reduce, lines 105-138: the records one file adds to
\* refs, all of them the one object tsFileReferences
ReferencesOfTSFile(file) ==
    LET acc == ForEachServiceName(file.fileContents,
                                  ServiceNames(file.fileContents, 1),
                                  [resources |-> <<>>, pushes |-> 0, thrown |-> FALSE])
        n == acc.pushes + (IF acc.thrown THEN 1 ELSE 0)
    IN [i \in 1..n |-> [fileName |-> file.fileName, resources |-> acc.resources]]

\* lines 101-140
getTSReferences(fls) ==
    IF isEmpty(fls) THEN <<>>
    ELSE Flatten([f \in 1..Len(fls) |-> ReferencesOfTSFile(fls[f])])

getTSReferencesCall ==
    /\ pc = "getTSReferences"
    /\ tsRefs' = getTSReferences(files)
    /\ pc' = "returned"
    /\ UNCHANGED <<key, once, twice, disk, filePaths, files, resourceFiles,
                   references, pos, missing, nonStandard, unusedKeys>>

NextTS == getTSReferencesCall

TsAlphabet == {"a", ",", ")", SP, TYPE, CALL}

InitTS ==
    /\ pc = "getTSReferences"
    /\ \/ files = <<>>
       \/ \E c \in Strs(TsAlphabet, MaxContentLen) :
             files = << [fileName |-> RefFileNames[2], fileContents |-> c] >>
    /\ key = <<>> /\ once = <<>> /\ twice = <<>>
    /\ disk = <<>> /\ filePaths = <<>>
    /\ resourceFiles = <<>> /\ references = <<>>
    /\ pos = <<>> /\ missing = <<>> /\ nonStandard = <<>>
    /\ unusedKeys = <<>> /\ tsRefs = <<>>

SpecTS == InitTS /\ [][NextTS]_vars

\* C2: a token stored in a file's resources is the first comma-delimited
\* segment of the argument text of its call: no text after a comma is stored
C2_FirstSegmentOnly ==
    pc = "returned" =>
        \A r \in 1..Len(tsRefs) :
            \A i \in 1..Len(tsRefs[r].resources) :
                tsRefs[r].resources[i] = FirstCommaSegment(tsRefs[r].resources[i])

====
